---------------------------- MODULE Spec2Model ----------------------------
(***************************************************************************)
(* Coral Shopping backend (src/main.py, src/schemas.py): the request       *)
(* handlers, the filters they build, the ranking of recommendations and    *)
(* the order totals, over a document store of five collections.            *)
(*                                                                         *)
(* Conventions.  A Python string the code searches, tests for emptiness or *)
(* slices is a tuple of one-character strings; a string that is only       *)
(* stored or compared with a Literal is a TLA+ string.  An Optional value  *)
(* is a set with at most one element: {} is None (or a missing key), {v}   *)
(* is the value v.  Money is in whole units.                               *)
(***************************************************************************)
EXTENDS Integers, Sequences, FiniteSets, TLC

VARIABLES store, resp

vars == <<store, resp>>

(***************************************************************************)
(* Bounds of the model.                                                    *)
(***************************************************************************)
\* documents the requests of one behaviour may insert
MaxInserts == 2
\* length of the longest seeded product collection of the ranking runs
MaxSeedLen == 26

(***************************************************************************)
(* Program constants.                                                      *)
(***************************************************************************)
ShippingFee == 1200
RecommendationLimit == 24
DefaultLimit == 50
OidHexLen == 24
NarrationLen == 6

(***************************************************************************)
(* Optional values and small helpers.                                      *)
(***************************************************************************)
None == {}

Some(v) == {v}

Val(o) == CHOOSE v \in o : TRUE

\* dict.get(key, default) on a key that may be missing
Get(o, default) == IF o = None THEN default ELSE Val(o)

Min(a, b) == IF a <= b THEN a ELSE b

Range(s) == {s[i] : i \in 1..Len(s)}

\* s[:n]
Take(s, n) == SubSeq(s, 1, Min(n, Len(s)))

SeqsUpTo(S, n) == UNION {[1..k -> S] : k \in 0..n}

(***************************************************************************)
(* Strings.                                                                *)
(***************************************************************************)
CasePairs == {<<"a", "A">>, <<"b", "B">>, <<"c", "C">>, <<"d", "D">>,
              <<"e", "E">>, <<"f", "F">>}

Lower(c) == IF \E p \in CasePairs : p[2] = c
            THEN (CHOOSE p \in CasePairs : p[2] = c)[1]
            ELSE c

Upper(c) == IF \E p \in CasePairs : p[1] = c
            THEN (CHOOSE p \in CasePairs : p[1] = c)[2]
            ELSE c

\* str.upper()
UpperStr(s) == [i \in 1..Len(s) |-> Upper(s[i])]

\* q is a substring of text, letter case ignored
ContainsCI(text, q) ==
    \E i \in 0..(Len(text) - Len(q)) :
        \A j \in 1..Len(q) : Lower(text[i + j]) = Lower(q[j])

\* The store's {"$regex": pat, "$options": "i"} on one string: an unanchored,
\* case-insensitive search in which "." stands for any one character and
\* every other character of the alphabet below stands for itself.
RegexSearchCI(text, pat) ==
    \E i \in 0..(Len(text) - Len(pat)) :
        \A j \in 1..Len(pat) :
            \/ pat[j] = "."
            \/ Lower(text[i + j]) = Lower(pat[j])

Foodstuffs == <<"f", "o", "o", "d">>
Gifts == <<"g", "i", "f", "t", "s">>
Hampers == <<"h", "a", "m", "p">>
Household == <<"h", "o", "u", "s", "e">>
Office == <<"o", "f", "f", "i", "c", "e">>

Categories == {Foodstuffs, Gifts, Hampers, Household, Office}

(***************************************************************************)
(* Store identifiers: an ObjectId is 12 bytes, its string form 24 hex      *)
(* digits.                                                                 *)
(***************************************************************************)
HexDigits == <<"0", "1", "2", "3", "4", "5", "6", "7", "8", "9",
               "a", "b", "c", "d", "e", "f">>

IsHex(c) == \E k \in 1..16 : HexDigits[k] = Lower(c)

HexVal(c) == (CHOOSE k \in 1..16 : HexDigits[k] = Lower(c)) - 1

\* bson.ObjectId.is_valid on a str
IsValidOid(s) == Len(s) = OidHexLen /\ \A i \in 1..Len(s) : IsHex(s[i])

\* bson.ObjectId(s) of a valid s
ObjectId(s) == [i \in 1..(OidHexLen \div 2) |->
                   16 * HexVal(s[2 * i - 1]) + HexVal(s[2 * i])]

\* str(oid)
OidStr(o) == [i \in 1..(2 * Len(o)) |->
                 IF i % 2 = 1 THEN HexDigits[(o[(i + 1) \div 2] \div 16) + 1]
                              ELSE HexDigits[(o[i \div 2] % 16) + 1]]

\* the n-th identifier the store hands out
NewOid(n) == [i \in 1..(OidHexLen \div 2) |->
                 IF i = OidHexLen \div 2 THEN n % 256
                 ELSE IF i = (OidHexLen \div 2) - 1 THEN (n \div 256) % 256
                 ELSE 0]

(***************************************************************************)
(* Filters.  A filter is the dict a handler builds; each key is optional.  *)
(*   category    {"category": c}                                           *)
(*   price       {"price": {"$gte": a, "$lte": b}}, each bound optional    *)
(*   orRegex     {"$or": [{title: rx}, {description: rx}, {tags: rx}]}     *)
(*   orIn        {"$or": [{category: {"$in": l}}, {tags: {"$in": l}}]}     *)
(*   customer_id {"customer_id": c}                                        *)
(*   idIn        {"_id": {"$in": ids}}                                     *)
(***************************************************************************)
EmptyFilter == [category |-> None, price |-> None, orRegex |-> None,
                orIn |-> None, customer_id |-> None, idIn |-> None]

\* Python truthiness of an Optional[str] / Optional[list]
Truthy(o) == o # None /\ Val(o) # <<>>

Has(d, k) == k \in DOMAIN d

\* The store's evaluation of a filter on one document: the keys are ANDed, a
\* predicate on a field the document lacks (or holds null in) fails, and a
\* predicate on an array field holds when some element satisfies it.
Matches(d, f) ==
    /\ f.category # None =>
          Has(d, "category") /\ d.category = Val(f.category)
    /\ f.price # None =>
          /\ Has(d, "price") /\ d.price # None
          /\ Val(f.price).gte # None => Val(d.price) >= Val(Val(f.price).gte)
          /\ Val(f.price).lte # None => Val(d.price) <= Val(Val(f.price).lte)
    /\ f.orRegex # None =>
          \/ Has(d, "title") /\ RegexSearchCI(d.title, Val(f.orRegex))
          \/ /\ Has(d, "description") /\ d.description # None
             /\ RegexSearchCI(Val(d.description), Val(f.orRegex))
          \/ /\ Has(d, "tags")
             /\ \E i \in 1..Len(d.tags) : RegexSearchCI(d.tags[i], Val(f.orRegex))
    /\ f.orIn # None =>
          \/ Has(d, "category") /\ d.category \in Range(Val(f.orIn))
          \/ Has(d, "tags") /\ Range(d.tags) \cap Range(Val(f.orIn)) # {}
    /\ f.customer_id # None =>
          Has(d, "customer_id") /\ d.customer_id = Val(f.customer_id)
    /\ f.idIn # None => d._id \in Range(Val(f.idIn))

(***************************************************************************)
(* The document store: five collections, each the sequence of its          *)
(* documents in insertion order.                                           *)
(***************************************************************************)
Collections == {"customer", "product", "order", "supportticket", "analyticsevent"}

NumDocs(st) == Len(st.customer) + Len(st.product) + Len(st.order)
               + Len(st.supportticket) + Len(st.analyticsevent)

WithId(data, oid) == [k \in DOMAIN data \cup {"_id"} |->
                         IF k = "_id" THEN oid ELSE data[k]]

\* database.create_document: insert one document, the store assigns its _id
InsertedOid(st) == NewOid(NumDocs(st) + 1)

create_document(st, coll, data) ==
    [st EXCEPT ![coll] = Append(@, WithId(data, InsertedOid(st)))]

\* collection.find(filter): the matching documents in insertion order
Find(st, coll, f) == SelectSeq(st[coll], LAMBDA d : Matches(d, f))

\* database.get_documents: find with a filter and a limit
get_documents(st, coll, f, limit) == Take(Find(st, coll, f), limit)

\* d["_id"] = str(d["_id"]) over a result list
Serialize(docs) == [i \in 1..Len(docs) |->
                       [docs[i] EXCEPT !._id = OidStr(docs[i]._id)]]

(***************************************************************************)
(* Responses.  resp is the response to the last request handled:           *)
(*   op      the handler                                                   *)
(*   status  200, 422 (the framework rejected the request) or 500 (the     *)
(*           handler raised)                                               *)
(*   req     the request's parameters                                      *)
(*   filter  the filter the handler built, when it built one               *)
(*   queried whether the handler reached its store call                    *)
(*   body    the JSON body                                                 *)
(***************************************************************************)
Response(op, status, req, filter, queried, body) ==
    [op |-> op, status |-> status, req |-> req, filter |-> filter,
     queried |-> queried, body |-> body]

NoBody == [detail |-> "error"]

\* the framework's answer to a request that fails validation
Rejected(op, req) == Response(op, 422, req, None, FALSE, NoBody)

\* the framework's answer to an exception the handler does not catch
Raised(op, req) == Response(op, 500, req, None, FALSE, NoBody)

(***************************************************************************)
(* GET / and GET /schema                                                   *)
(***************************************************************************)
read_root ==
    /\ resp' = Response("read_root", 200, <<>>, None, FALSE,
                        [message |-> "Coral Shopping Backend Running"])
    /\ UNCHANGED store

get_schema ==
    /\ resp' = Response("get_schema", 200, <<>>, None, FALSE,
                        [collections |-> <<"customer", "product", "order",
                                           "supportticket", "analyticsevent">>])
    /\ UNCHANGED store

(***************************************************************************)
(* Customers                                                               *)
(***************************************************************************)
\* pydantic EmailStr: a local part, "@", a domain
IsEmail(e) == \E i \in 2..(Len(e) - 1) :
                  e[i] = "@" /\ \A j \in 1..Len(e) : j # i => e[j] # "@"

\* schemas.Customer as create_customer fills it
CustomerDoc(payload) ==
    [full_name |-> payload.full_name, email |-> payload.email,
     phone |-> payload.phone,
     addresses |-> IF Truthy(payload.address) THEN <<Val(payload.address)>>
                   ELSE <<>>,
     balance |-> 0, is_active |-> TRUE]

create_customer(payload) ==
    IF ~IsEmail(payload.email)
    THEN /\ resp' = Raised("create_customer", payload)
         /\ UNCHANGED store
    ELSE /\ store' = create_document(store, "customer", CustomerDoc(payload))
         /\ resp' = Response("create_customer", 200, payload, None, TRUE,
                             [id |-> OidStr(InsertedOid(store))])

list_customers(limit) ==
    /\ resp' = Response("list_customers", 200, [limit |-> limit],
                        Some(EmptyFilter), TRUE,
                        [items |-> Serialize(get_documents(store, "customer",
                                                           EmptyFilter, limit))])
    /\ UNCHANGED store

(***************************************************************************)
(* Products                                                                *)
(***************************************************************************)
\* schemas.Product built from CreateProductRequest: rating takes its default
ProductDoc(payload) ==
    [title |-> payload.title, description |-> payload.description,
     price |-> Some(payload.price), category |-> payload.category,
     images |-> payload.images, in_stock |-> payload.in_stock,
     stock_qty |-> payload.stock_qty, tags |-> payload.tags,
     rating |-> Some(0)]

\* the constraints of schemas.Product that CreateProductRequest does not state
ProductValid(payload) == payload.price >= 0 /\ payload.stock_qty >= 0

create_product(payload) ==
    IF payload.category \notin Categories
    THEN /\ resp' = Rejected("create_product", payload)
         /\ UNCHANGED store
    ELSE IF ~ProductValid(payload)
    THEN /\ resp' = Raised("create_product", payload)
         /\ UNCHANGED store
    ELSE /\ store' = create_document(store, "product", ProductDoc(payload))
         /\ resp' = Response("create_product", 200, payload, None, TRUE,
                             [id |-> OidStr(InsertedOid(store))])

\* PriceFilter with the bounds tested for truth ('if minPrice:'), so that a
\* bound of 0 counts as absent
PriceFilter_ZeroIsAbsent(lo, hi) ==
    LET given(b) == IF b # None /\ Val(b) # 0 THEN b ELSE None
    IN  IF given(lo) # None \/ given(hi) # None
        THEN Some([gte |-> given(lo), lte |-> given(hi)])
        ELSE None

\* the price predicate both search handlers build from two optional bounds
PriceFilter(lo, hi) ==
    IF lo # None \/ hi # None THEN Some([gte |-> lo, lte |-> hi]) ELSE None

\* filter_dict of get_products
ProductFilter(category, q, minPrice, maxPrice) ==
    [EmptyFilter EXCEPT
        !.category = IF Truthy(category) THEN category ELSE None,
        !.price = PriceFilter(minPrice, maxPrice),
        !.orRegex = IF Truthy(q) THEN q ELSE None]

\* Query(None, ge=0)
BoundValid(b) == b = None \/ Val(b) >= 0

\* get_products passing the default limit to the store instead of limit
get_products_IgnoresLimit(category, q, minPrice, maxPrice, limit) ==
    LET req == [category |-> category, q |-> q, minPrice |-> minPrice,
                maxPrice |-> maxPrice, limit |-> limit]
        filter_dict == ProductFilter(category, q, minPrice, maxPrice)
    IN  /\ resp' = IF ~BoundValid(minPrice) \/ ~BoundValid(maxPrice)
                   THEN Rejected("get_products", req)
                   ELSE Response("get_products", 200, req, Some(filter_dict),
                                 TRUE,
                                 [items |-> Serialize(get_documents(
                                      store, "product", filter_dict,
                                      DefaultLimit))])
        /\ UNCHANGED store

get_products(category, q, minPrice, maxPrice, limit) ==
    LET req == [category |-> category, q |-> q, minPrice |-> minPrice,
                maxPrice |-> maxPrice, limit |-> limit]
        filter_dict == ProductFilter(category, q, minPrice, maxPrice)
    IN  /\ resp' = IF ~BoundValid(minPrice) \/ ~BoundValid(maxPrice)
                   THEN Rejected("get_products", req)
                   ELSE Response("get_products", 200, req, Some(filter_dict),
                                 TRUE,
                                 [items |-> Serialize(get_documents(
                                      store, "product", filter_dict, limit))])
        /\ UNCHANGED store

(***************************************************************************)
(* Recommendations                                                         *)
(***************************************************************************)
\* RecommendationRequest with budget_min declared '= None'
RecommendationRequest_NoDefault(body) ==
    [budget_min |-> IF body.has_budget_min THEN body.budget_min ELSE None,
     budget_max |-> body.budget_max,
     preferences |-> body.preferences]

\* RecommendationRequest parsed from a JSON body: budget_min defaults to 0
\* when the body omits it; an explicit null stays None.
RecommendationRequest(body) ==
    [budget_min |-> IF body.has_budget_min THEN body.budget_min ELSE Some(0),
     budget_max |-> body.budget_max,
     preferences |-> body.preferences]

\* filter_dict of get_recommendations
RecommendationFilter(req) ==
    [EmptyFilter EXCEPT
        !.price = PriceFilter(req.budget_min, req.budget_max),
        !.orIn = IF Truthy(req.preferences) THEN req.preferences ELSE None]

\* the sort key with the rating not negated
SortKey_RatingAscending(x) == <<Get(x.price, 0), Get(x.rating, 0)>>

\* key=lambda x: (x.get("price", 0), -x.get("rating", 0))
SortKey(x) == <<Get(x.price, 0), -Get(x.rating, 0)>>

\* Python's order on pairs
TupleLess(k1, k2) == k1[1] < k2[1] \/ (k1[1] = k2[1] /\ k1[2] < k2[2])

\* x put behind every element of the sorted list whose key is not greater
InsertByKey(sorted, x) ==
    LET p == Cardinality({i \in 1..Len(sorted) :
                             ~TupleLess(SortKey(x), SortKey(sorted[i]))})
    IN  SubSeq(sorted, 1, p) \o <<x>> \o SubSeq(sorted, p + 1, Len(sorted))

\* list.sort(key=...): a stable sort
RECURSIVE SortByKey(_)
SortByKey(items) ==
    IF items = <<>> THEN <<>>
    ELSE InsertByKey(SortByKey(SubSeq(items, 1, Len(items) - 1)),
                     items[Len(items)])

get_recommendations(body) ==
    LET req == RecommendationRequest(body)
        filter_dict == RecommendationFilter(req)
        items == get_documents(store, "product", filter_dict,
                               RecommendationLimit)
    IN  /\ resp' = Response("get_recommendations", 200, body,
                            Some(filter_dict), TRUE,
                            [items |-> Serialize(SortByKey(items))])
        /\ UNCHANGED store

(***************************************************************************)
(* Comparison                                                              *)
(***************************************************************************)
\* filter of compare_products over the converted ids
CompareFilter(ids) == [EmptyFilter EXCEPT !.idIn = Some(ids)]

\* [ObjectId(x) for x in req.ids] raises bson.errors.InvalidId on the first
\* string that is no identifier; nothing in the handler catches it.
compare_products(ids) ==
    LET req == [ids |-> ids]
        oids == [i \in 1..Len(ids) |-> ObjectId(ids[i])]
    IN  /\ resp' = IF \E i \in 1..Len(ids) : ~IsValidOid(ids[i])
                   THEN Raised("compare_products", req)
                   ELSE Response("compare_products", 200, req,
                                 Some(CompareFilter(oids)), TRUE,
                                 [items |-> Serialize(Find(store, "product",
                                                CompareFilter(oids)))])
        /\ UNCHANGED store

(***************************************************************************)
(* Orders                                                                  *)
(***************************************************************************)
\* schemas.OrderItem: unit_price >= 0, quantity >= 1
OrderItemValid(it) == it.unit_price >= 0 /\ it.quantity >= 1

DeliveryOptions == {"pickup", "delivery"}

\* CreateOrderRequest: items is a list of valid OrderItem (of any length),
\* delivery_option one of the two literals when given
OrderRequestValid(req) ==
    /\ \A i \in 1..Len(req.items) : OrderItemValid(req.items[i])
    /\ req.delivery_option # None => Val(req.delivery_option) \in DeliveryOptions

RECURSIVE SumLineTotals(_)
\* sum([it.unit_price * it.quantity for it in items])
SumLineTotals(items) ==
    IF items = <<>> THEN 0
    ELSE items[1].unit_price * items[1].quantity + SumLineTotals(Tail(items))

\* the shipping fee charged whatever the delivery option
ShippingFeeOf_Always(delivery_option) == ShippingFee

ShippingFeeOf(delivery_option) ==
    IF delivery_option = "delivery" THEN ShippingFee ELSE 0

\* schemas.Order as create_order fills it
OrderDoc(req) ==
    LET delivery_option == Get(req.delivery_option, "delivery")
        subtotal == SumLineTotals(req.items)
        shipping_fee == ShippingFeeOf(delivery_option)
        total == subtotal + shipping_fee
    IN  [customer_id |-> req.customer_id, items |-> req.items,
         subtotal |-> subtotal, shipping_fee |-> shipping_fee,
         total |-> total, payment_method |-> "bank_transfer",
         payment_status |-> "pending", status |-> "pending",
         delivery_option |-> delivery_option,
         delivery_address |-> req.delivery_address, notes |-> req.notes]

\* f"ORDER-{inserted_id[:6].upper()}"
Narration(inserted_id) ==
    <<"O", "R", "D", "E", "R", "-">> \o UpperStr(Take(inserted_id, NarrationLen))

create_order(req) ==
    IF ~OrderRequestValid(req)
    THEN /\ resp' = Rejected("create_order", req)
         /\ UNCHANGED store
    ELSE LET order == OrderDoc(req)
             inserted_id == OidStr(InsertedOid(store))
         IN  /\ store' = create_document(store, "order", order)
             /\ resp' = Response("create_order", 200, req, None, TRUE,
                    [id |-> inserted_id,
                     bank_transfer_instructions |->
                        [account_name |-> "Coral Shopping LTD",
                         bank |-> "GTBank",
                         account_number |-> "0123456789",
                         amount |-> order.total,
                         narration |-> Narration(inserted_id)]])

\* list_orders building {"customer_id": customer_id} also for no customer_id
OrdersFilter_AlwaysCustomer(customer_id) ==
    [EmptyFilter EXCEPT !.customer_id = Some(Get(customer_id, <<>>))]

\* filter_dict of list_orders
OrdersFilter(customer_id) ==
    IF Truthy(customer_id)
    THEN [EmptyFilter EXCEPT !.customer_id = customer_id]
    ELSE EmptyFilter

list_orders(customer_id, limit) ==
    LET filter_dict == OrdersFilter(customer_id)
    IN  /\ resp' = Response("list_orders", 200,
                            [customer_id |-> customer_id, limit |-> limit],
                            Some(filter_dict), TRUE,
                            [items |-> Serialize(get_documents(
                                 store, "order", filter_dict, limit))])
        /\ UNCHANGED store

(***************************************************************************)
(* Analytics, support tickets, diagnostics                                 *)
(***************************************************************************)
EventTypes == {"view", "click", "add_to_cart", "purchase", "recommendation_click"}

TicketStatuses == {"open", "in_progress", "resolved"}

track_event(event) ==
    IF event.type \notin EventTypes
    THEN /\ resp' = Rejected("track_event", event)
         /\ UNCHANGED store
    ELSE /\ store' = create_document(store, "analyticsevent", event)
         /\ resp' = Response("track_event", 200, event, None, TRUE,
                             [status |-> "ok"])

\* SupportTicket: status defaults to 'open'
TicketDoc(ticket) ==
    [customer_id |-> ticket.customer_id, subject |-> ticket.subject,
     message |-> ticket.message, status |-> Get(ticket.status, "open")]

\* open_ticket replacing the customer's earlier ticket instead of adding one
open_ticket_Upsert(ticket) ==
    IF ticket.status # None /\ Val(ticket.status) \notin TicketStatuses
    THEN /\ resp' = Rejected("open_ticket", ticket)
         /\ UNCHANGED store
    ELSE LET kept == SelectSeq(store.supportticket,
                               LAMBDA t : t.customer_id # ticket.customer_id)
             cleared == [store EXCEPT !.supportticket = kept]
         IN  /\ store' = [cleared EXCEPT !.supportticket =
                             Append(@, WithId(TicketDoc(ticket),
                                              InsertedOid(store)))]
             /\ resp' = Response("open_ticket", 200, ticket, None, TRUE,
                                 [id |-> OidStr(InsertedOid(store))])

open_ticket(ticket) ==
    IF ticket.status # None /\ Val(ticket.status) \notin TicketStatuses
    THEN /\ resp' = Rejected("open_ticket", ticket)
         /\ UNCHANGED store
    ELSE /\ store' = create_document(store, "supportticket", TicketDoc(ticket))
         /\ resp' = Response("open_ticket", 200, ticket, None, TRUE,
                             [id |-> OidStr(InsertedOid(store))])

\* db.list_collection_names(): the collections that hold a document
test_database ==
    /\ resp' = Response("test_database", 200, <<>>, None, TRUE,
                        [backend |-> "Running",
                         connection_status |-> "Connected",
                         collections |-> {c \in Collections : store[c] # <<>>}])
    /\ UNCHANGED store

(***************************************************************************)
(* Requests.                                                               *)
(***************************************************************************)
CustomerC1 == <<"c", "1">>
CustomerC2 == <<"c", "2">>

CustomerPayloads ==
    {[full_name |-> "Ada", email |-> <<"a", "@", "b">>, phone |-> None,
      address |-> Some(<<"a">>)],
     [full_name |-> "Bad", email |-> <<"a", "b">>, phone |-> None,
      address |-> None]}

ProductAB ==
    [title |-> <<"a", "b">>, description |-> None, price |-> 0,
     category |-> Gifts, images |-> <<>>, in_stock |-> TRUE, stock_qty |-> 0,
     tags |-> <<>>]

ProductB ==
    [title |-> <<"B">>, description |-> Some(<<"c", ".">>), price |-> 10,
     category |-> Office, images |-> <<>>, in_stock |-> TRUE, stock_qty |-> 0,
     tags |-> << <<"A", "d">>, Gifts >>]

ProductPayloads ==
    {ProductAB, ProductB,
     [ProductAB EXCEPT !.price = -1],
     [ProductAB EXCEPT !.category = <<"t", "o", "y", "s">>]}

Limits == {1, DefaultLimit}

ProductQuery(category, q, minPrice, maxPrice, limit) ==
    [category |-> category, q |-> q, minPrice |-> minPrice,
     maxPrice |-> maxPrice, limit |-> limit]

NoQuery == ProductQuery(None, None, None, None, DefaultLimit)

\* the listing requests of the whole-program specification
ProductQueries ==
    {NoQuery,
     [NoQuery EXCEPT !.limit = 1],
     [NoQuery EXCEPT !.category = Some(Gifts), !.maxPrice = Some(5)],
     [NoQuery EXCEPT !.q = Some(<<".">>)],
     [NoQuery EXCEPT !.q = Some(<<"A">>), !.minPrice = Some(0)],
     [NoQuery EXCEPT !.minPrice = Some(-1)]}

\* the listing requests of the search specification
SearchQueries ==
    [category : {None, Some(Gifts)},
     q : {None, Some(<<>>), Some(<<".">>), Some(<<"A">>), Some(<<"c", ".">>)},
     minPrice : {None, Some(0), Some(10)},
     maxPrice : {None, Some(0), Some(5)},
     limit : {DefaultLimit}]
    \cup {[NoQuery EXCEPT !.limit = 1],
          [NoQuery EXCEPT !.limit = 2],
          [NoQuery EXCEPT !.limit = 1, !.q = Some(<<"A">>)],
          [NoQuery EXCEPT !.limit = 1, !.minPrice = Some(10)],
          [NoQuery EXCEPT !.category = Some(<<>>)],
          [NoQuery EXCEPT !.maxPrice = Some(-1)]}

RecommendationBody(has_budget_min, budget_min, budget_max, preferences) ==
    [has_budget_min |-> has_budget_min, budget_min |-> budget_min,
     budget_max |-> budget_max, preferences |-> preferences]

\* the recommendation requests of the whole-program specification
RecommendationBodies ==
    {RecommendationBody(FALSE, None, None, None),
     RecommendationBody(TRUE, None, None, None),
     RecommendationBody(TRUE, Some(10), None, Some(<<Gifts>>)),
     RecommendationBody(FALSE, None, Some(5), Some(<<>>))}

\* the recommendation requests of the search specification
SearchBodies ==
    {RecommendationBody(h[1], h[2], hi, prefs) :
        h \in {<<FALSE, None>>, <<TRUE, None>>, <<TRUE, Some(10)>>},
        hi \in {None, Some(5), Some(10)},
        prefs \in {None, Some(<<>>), Some(<<Gifts>>),
                   Some(<< <<"A", "d">>, Hampers >>)}}

Oid1Str == OidStr(NewOid(1))
Oid2Str == OidStr(NewOid(2))

CompareIdLists ==
    {<<>>, <<Oid1Str>>, <<Oid2Str, Oid1Str>>, <<UpperStr(Oid1Str)>>,
     << <<"x", "y", "z">> >>, <<Oid1Str, [i \in 1..OidHexLen |-> "g"]>>,
     <<Take(Oid1Str, OidHexLen \div 2)>>}

Item(product_id, unit_price, quantity) ==
    [product_id |-> product_id, title |-> product_id,
     unit_price |-> unit_price, quantity |-> quantity]

ItemLists ==
    {<<>>, <<Item("rice", 100, 2), Item("card", 50, 1)>>,
     <<Item("card", 0, 1)>>, <<Item("rice", -1, 1)>>,
     <<Item("rice", 100, 2), Item("card", 50, 0)>>}

OrderRequests ==
    [customer_id : {CustomerC1},
     items : ItemLists,
     delivery_option : {None, Some("pickup")},
     delivery_address : {None},
     notes : {None}]
    \cup {[customer_id |-> CustomerC1, items |-> <<Item("card", 50, 1)>>,
           delivery_option |-> Some(d), delivery_address |-> None,
           notes |-> None] : d \in {"delivery", "drone"}}

OrderCustomerIds == {None, Some(<<>>), Some(CustomerC1), Some(CustomerC2)}

Events ==
    {[type |-> t, customer_id |-> Some(CustomerC1), product_id |-> None,
      meta |-> None, timestamp |-> None] : t \in {"view", "scroll"}}

Tickets ==
    {[customer_id |-> CustomerC1, subject |-> "late", message |-> "where",
      status |-> st] : st \in {None, Some("lost")}}

(***************************************************************************)
(* The whole program on a fresh store.                                     *)
(***************************************************************************)
EmptyStore == [c \in Collections |-> <<>>]

NoResponse == Response("start", 0, <<>>, None, FALSE, NoBody)

Init ==
    /\ store = EmptyStore
    /\ resp = NoResponse

\* the model stops inserting at MaxInserts documents
MayInsert == NumDocs(store) < MaxInserts

Next ==
    \/ read_root
    \/ get_schema
    \/ \E payload \in CustomerPayloads : MayInsert /\ create_customer(payload)
    \/ \E limit \in Limits : list_customers(limit)
    \/ \E payload \in ProductPayloads : MayInsert /\ create_product(payload)
    \/ \E r \in ProductQueries :
          get_products(r.category, r.q, r.minPrice, r.maxPrice, r.limit)
    \/ \E body \in RecommendationBodies : get_recommendations(body)
    \/ \E ids \in CompareIdLists : compare_products(ids)
    \/ \E req \in OrderRequests : MayInsert /\ create_order(req)
    \/ \E customer_id \in OrderCustomerIds, limit \in Limits :
          list_orders(customer_id, limit)
    \/ \E event \in Events : MayInsert /\ track_event(event)
    \/ \E ticket \in Tickets : MayInsert /\ open_ticket(ticket)
    \/ test_database

Spec == Init /\ [][Next]_vars

(***************************************************************************)
(* Product search on a store that already holds products.  The store is    *)
(* schema-free and outlives the program, so the product collection may     *)
(* hold documents other writers put there: with a rating, or without a     *)
(* price or a rating.                                                      *)
(***************************************************************************)
SeedDoc(title, description, price, category, tags, rating) ==
    [title |-> title, description |-> description, price |-> price,
     category |-> category, images |-> <<>>, in_stock |-> TRUE,
     stock_qty |-> 0, tags |-> tags, rating |-> rating]

SeedDocs ==
    <<SeedDoc(<<"a", "b">>, None, Some(10), Gifts, <<>>, Some(2)),
      SeedDoc(<<"B">>, Some(<<"c", ".">>), Some(10), Office,
              << <<"A", "d">>, Gifts >>, Some(5)),
      SeedDoc(<<"c", "d">>, None, Some(5), Hampers, << <<"e">> >>, Some(1)),
      SeedDoc(<<"d">>, Some(<<"a">>), None, Gifts, <<>>, Some(3)),
      SeedDoc(<<"e", ".">>, None, Some(5), Office, <<>>, None),
      SeedDoc(<<"f">>, None, Some(0), Gifts, << <<"A", "d">> >>, Some(1))>>

\* a product collection holding the seed documents numbered by picks
SeededProducts(picks) ==
    [i \in 1..Len(picks) |-> WithId(SeedDocs[picks[i]], NewOid(i))]

SeededStore(picks) == [EmptyStore EXCEPT !.product = SeededProducts(picks)]

SearchSeeds == {1, 2, 4}

InitSearch ==
    /\ \E picks \in SeqsUpTo(SearchSeeds, MaxInserts) :
          store = SeededStore(picks)
    /\ resp = NoResponse

NextSearch ==
    \/ \E payload \in ProductPayloads : MayInsert /\ create_product(payload)
    \/ \E r \in SearchQueries :
          get_products(r.category, r.q, r.minPrice, r.maxPrice, r.limit)
    \/ \E body \in SearchBodies : get_recommendations(body)

SpecSearch == InitSearch /\ [][NextSearch]_vars

(***************************************************************************)
(* Ranking on product collections longer than the recommendation limit.    *)
(***************************************************************************)
RankPatterns == {1, 2, 5}

\* n seed documents, the i-th chosen by pattern k
RankPicks(n, k) == [i \in 1..n |-> ((i * k + i \div 4) % Len(SeedDocs)) + 1]

\* the list of the specification's ranking example
ExamplePicks == <<1, 2, 3>>

RankBodies ==
    {RecommendationBody(TRUE, None, None, None),
     RecommendationBody(FALSE, None, None, None),
     RecommendationBody(FALSE, None, Some(5), Some(<<Gifts, Office>>))}

InitRank ==
    /\ \/ store = SeededStore(ExamplePicks)
       \/ \E n \in 0..MaxSeedLen, k \in RankPatterns :
             store = SeededStore(RankPicks(n, k))
    /\ resp = NoResponse

NextRank ==
    \/ \E payload \in ProductPayloads : MayInsert /\ create_product(payload)
    \/ \E body \in RankBodies : get_recommendations(body)

SpecRank == InitRank /\ [][NextRank]_vars

(***************************************************************************)
(* Properties.                                                             *)
(***************************************************************************)
Orders == store.order

LastOrder == Orders[Len(Orders)]

Handled(op) == resp.op = op /\ resp.status = 200

\* the sum of unit_price * quantity over positions 1..n of items
RECURSIVE LineTotalUpTo(_, _)
LineTotalUpTo(items, n) ==
    IF n = 0 THEN 0
    ELSE LineTotalUpTo(items, n - 1) + items[n].unit_price * items[n].quantity

TotalsConsistent(o) ==
    /\ o.subtotal = LineTotalUpTo(o.items, Len(o.items))
    /\ o.shipping_fee = (IF o.delivery_option = "delivery" THEN 1200 ELSE 0)
    /\ o.total = o.subtotal + o.shipping_fee

C1_TotalsHold ==
    /\ \A i \in 1..Len(Orders) : TotalsConsistent(Orders[i])
    /\ Handled("create_order") =>
          /\ Orders # <<>>
          /\ OidStr(LastOrder._id) = resp.body.id
          /\ LastOrder.items = resp.req.items
          /\ resp.body.bank_transfer_instructions.amount = LastOrder.total

C1_TotalsKept ==
    \A i \in 1..Len(Orders) :
        /\ i <= Len(store'.order)
        /\ store'.order[i].subtotal = Orders[i].subtotal
        /\ store'.order[i].shipping_fee = Orders[i].shipping_fee
        /\ store'.order[i].total = Orders[i].total

\* C1: every stored order has subtotal = sum of unit_price * quantity over
\* its items, shipping_fee = 1200 for delivery and 0 otherwise, and total =
\* subtotal + shipping_fee; create_order writes them once and no later
\* request changes them; the amount of the bank-transfer instructions is the
\* stored total.
C1_OrderTotals == []C1_TotalsHold /\ [][C1_TotalsKept]_vars

\* two orders are stored, the example basket delivered (1450) and picked up
\* (250), and the second was answered with its total
C1_Witness ==
    /\ Handled("create_order")
    /\ Len(Orders) = 2
    /\ Len(Orders[1].items) = 2
    /\ Orders[1].subtotal = 250 /\ Orders[1].total = 1450
    /\ Orders[2].delivery_option = "pickup" /\ Orders[2].total = 250
    /\ resp.body.bank_transfer_instructions.amount = 250

\* C5: compare_products with an id that is no valid identifier fails as a
\* client error (4xx) and issues no store query.
C5_InvalidIdIsClientError ==
    (resp.op = "compare_products"
     /\ \E i \in 1..Len(resp.req.ids) : ~IsValidOid(resp.req.ids[i]))
    => (resp.status \in 400..499 /\ ~resp.queried)

\* the filters each call site can build from its valid inputs
ListingFilters ==
    {ProductFilter(r.category, r.q, r.minPrice, r.maxPrice) :
        r \in {x \in ProductQueries :
                  BoundValid(x.minPrice) /\ BoundValid(x.maxPrice)}}

RecommendationFilters ==
    {RecommendationFilter(RecommendationRequest(b)) : b \in RecommendationBodies}

OrdersFilters == {OrdersFilter(c) : c \in OrderCustomerIds}

ComparisonFilters ==
    {CompareFilter([i \in 1..Len(ids) |-> ObjectId(ids[i])]) :
        ids \in {x \in CompareIdLists :
                    \A i \in 1..Len(x) : IsValidOid(x[i])}}

MatchesAll(f, coll) == Find(store, coll, f) = store[coll]

\* a handled request whose filter is empty returned the whole collection, up
\* to its limit
EmptyFilterReturnsAll ==
    /\ (Handled("get_products") /\ resp.filter = Some(EmptyFilter)) =>
          resp.body.items = Serialize(Take(store.product, resp.req.limit))
    /\ (Handled("get_recommendations") /\ resp.filter = Some(EmptyFilter)) =>
          Len(resp.body.items) = Min(Len(store.product), RecommendationLimit)
    /\ (Handled("list_orders") /\ resp.filter = Some(EmptyFilter)) =>
          resp.body.items = Serialize(Take(store.order, resp.req.limit))

\* C8 as stated: each of the four call sites (listing, recommendations,
\* comparison, orders listing) has a valid input whose filter has no
\* predicates, and the empty filter matches every document.
C8_FourCallSites ==
    /\ EmptyFilter \in ListingFilters /\ MatchesAll(EmptyFilter, "product")
    /\ EmptyFilter \in RecommendationFilters
    /\ EmptyFilter \in OrdersFilters /\ MatchesAll(EmptyFilter, "order")
    /\ EmptyFilter \in ComparisonFilters

\* C8 (amended): product listing, recommendations and orders listing each
\* have a valid input whose filter has no predicates, and the empty filter
\* matches every document of the collection; the comparison filter always
\* holds its _id predicate, and for an empty id list matches no document.
C8_ThreeCallSites ==
    /\ EmptyFilter \in ListingFilters /\ MatchesAll(EmptyFilter, "product")
    /\ EmptyFilter \in RecommendationFilters
    /\ EmptyFilter \in OrdersFilters /\ MatchesAll(EmptyFilter, "order")
    /\ EmptyFilterReturnsAll
    /\ \A f \in ComparisonFilters : f.idIn # None
    /\ Find(store, "product", CompareFilter(<<>>)) = <<>>

\* recommendations were asked with no bound and no preference on a store
\* holding products, and all of them came back
C8_Witness ==
    /\ Handled("get_recommendations")
    /\ resp.filter = Some(EmptyFilter)
    /\ Len(store.product) = 2
    /\ Len(resp.body.items) = 2

ViolatesOrderSchema(req) ==
    \/ Len(req.items) < 1
    \/ \E i \in 1..Len(req.items) :
          req.items[i].unit_price < 0 \/ req.items[i].quantity < 1

\* C9: every stored order has at least one item, every item of a stored
\* order has unit_price >= 0 and quantity >= 1, and a create_order request
\* that violates this is rejected as a validation error and stores nothing.
C9_OrdersHaveValidItems ==
    /\ \A i \in 1..Len(Orders) :
          /\ Len(Orders[i].items) >= 1
          /\ \A j \in 1..Len(Orders[i].items) :
                Orders[i].items[j].unit_price >= 0
                /\ Orders[i].items[j].quantity >= 1
    /\ (resp.op = "create_order" /\ ViolatesOrderSchema(resp.req)) =>
          resp.status = 422

ReadOps == {"read_root", "get_schema", "list_customers", "get_products",
            "get_recommendations", "compare_products", "list_orders",
            "test_database"}

CollectionOf(op) ==
    CASE op = "create_customer" -> "customer"
      [] op = "create_product" -> "product"
      [] op = "create_order" -> "order"
      [] op = "track_event" -> "analyticsevent"
      [] op = "open_ticket" -> "supportticket"

CreateOps == {"create_customer", "create_product", "create_order",
              "track_event", "open_ticket"}

AllIds(st) == UNION {{st[c][i]._id : i \in 1..Len(st[c])} : c \in Collections}

C10_Step ==
    /\ \A c \in Collections :
          /\ Len(store'[c]) >= Len(store[c])
          /\ SubSeq(store'[c], 1, Len(store[c])) = store[c]
    /\ resp'.op \in ReadOps => store' = store
    /\ (resp'.op \in CreateOps /\ resp'.status = 200) =>
          /\ \A c \in Collections :
                Len(store'[c]) = Len(store[c])
                                 + (IF c = CollectionOf(resp'.op) THEN 1 ELSE 0)
          /\ Cardinality(AllIds(store')) = Cardinality(AllIds(store)) + 1
    /\ (resp'.op = "create_order" /\ resp'.status = 200) =>
          /\ store'.order[Len(store'.order)].payment_status = "pending"
          /\ store'.order[Len(store'.order)].status = "pending"

C10_Pending ==
    \A i \in 1..Len(Orders) :
        Orders[i].payment_status = "pending" /\ Orders[i].status = "pending"

\* C10: the store is append-only: a successful create request adds exactly
\* one new document to exactly one collection, a read request leaves the
\* store unchanged, no request deletes or changes a stored document, and an
\* order is created with payment_status and status 'pending' and keeps them.
C10_AppendOnly == []C10_Pending /\ [][C10_Step]_vars

\* after two inserts into different collections, a listing has returned the
\* stored order, still pending
C10_Witness ==
    /\ Handled("list_orders")
    /\ Len(store.order) = 1 /\ Len(store.supportticket) = 1
    /\ Len(resp.body.items) = 1
    /\ resp.body.items[1].status = "pending"

Products == store.product

Returned == resp.body.items

\* the stored product a returned document is the serialization of
StoredPos(d) == CHOOSE i \in 1..Len(Products) : OidStr(Products[i]._id) = d._id

\* lo <= price <= hi, a bound that is None not constraining
InPriceRange(d, lo, hi) ==
    /\ lo # None => (d.price # None /\ Val(lo) <= Val(d.price))
    /\ hi # None => (d.price # None /\ Val(d.price) <= Val(hi))

\* the stored products that pass Keep, in store order, cut at limit
FirstKept(Keep(_), limit) == Take(SelectSeq(Products, Keep), limit)

\* C7: get_products with no category, q, minPrice or maxPrice builds the
\* empty filter and returns the stored products up to limit:
\* min(limit, number of stored products) of them, in store order.
C7_NoParametersListsAll ==
    (Handled("get_products")
     /\ resp.req.category = None /\ resp.req.q = None
     /\ resp.req.minPrice = None /\ resp.req.maxPrice = None)
    => /\ resp.filter = Some(EmptyFilter)
       /\ Len(Returned) = Min(resp.req.limit, Len(Products))
       /\ \A i \in 1..Len(Returned) :
             /\ Returned[i]._id = OidStr(Products[i]._id)
             /\ Returned[i].title = Products[i].title
             /\ Returned[i].price = Products[i].price

\* a listing without parameters and with limit 1 returned the first of two
\* stored products
C7_Witness ==
    /\ Handled("get_products")
    /\ resp.req = [NoQuery EXCEPT !.limit = 1]
    /\ Len(Products) = 2
    /\ Len(Returned) = 1

\* the predicates of the listing filter other than the price predicate
OtherListingPredicates(d) == Matches(d, [Val(resp.filter) EXCEPT !.price = None])

\* C3: every product get_products returns satisfies minPrice <= price when
\* minPrice is given and price <= maxPrice when maxPrice is given, both
\* inclusive; a bound that is omitted constrains nothing, a bound of 0 counts
\* as given, and the price predicate is ANDed with the category and q
\* predicates: the products returned are the first limit stored products
\* that are in the range and satisfy the other predicates.
C3_PriceRange ==
    Handled("get_products") =>
       /\ \A i \in 1..Len(Returned) :
             /\ InPriceRange(Returned[i], resp.req.minPrice, resp.req.maxPrice)
             /\ Truthy(resp.req.category) =>
                   Returned[i].category = Val(resp.req.category)
       /\ Returned = Serialize(FirstKept(
             LAMBDA d : /\ InPriceRange(d, resp.req.minPrice, resp.req.maxPrice)
                        /\ OtherListingPredicates(d),
             resp.req.limit))

\* with maxPrice = 0 and a category, the one free gift was returned and a
\* dearer gift was not
C3_Witness ==
    /\ Handled("get_products")
    /\ resp.req.maxPrice = Some(0) /\ resp.req.minPrice = None
    /\ resp.req.category = Some(Gifts)
    /\ Len(Returned) = 1
    /\ \E i \in 1..Len(Products) :
          Products[i].category = Gifts /\ Products[i].price = Some(10)

\* q occurs, letter case ignored, in the title, the description or a tag
ContainsText(d, q) ==
    \/ ContainsCI(d.title, q)
    \/ d.description # None /\ ContainsCI(Val(d.description), q)
    \/ \E i \in 1..Len(d.tags) : ContainsCI(d.tags[i], q)

\* C4: for every q, get_products returns only products that have q as a
\* case-insensitive literal substring of the title, the description or a
\* tag, and every stored product that has it (and satisfies the other
\* predicates) is eligible: the products returned are the first limit such
\* products.
C4_LiteralSubstring ==
    (Handled("get_products") /\ Truthy(resp.req.q)) =>
       /\ \A i \in 1..Len(Returned) : ContainsText(Returned[i], Val(resp.req.q))
       /\ Returned = Serialize(FirstKept(
             LAMBDA d : /\ ContainsText(d, Val(resp.req.q))
                        /\ Matches(d, [Val(resp.filter) EXCEPT !.orRegex = None]),
             resp.req.limit))

\* budget_min as the request model reads it: 0 when the body omits it
BudgetMin(body) == IF body.has_budget_min THEN body.budget_min ELSE Some(0)

PreferenceHit(d, preferences) ==
    \/ preferences = None
    \/ Val(preferences) = <<>>
    \/ d.category \in Range(Val(preferences))
    \/ \E i \in 1..Len(d.tags) : d.tags[i] \in Range(Val(preferences))

\* C6: the filter of get_recommendations is the AND of the inclusive price
\* range budget_min <= price <= budget_max (budget_min 0 when omitted, no
\* upper bound when budget_max is omitted) and, for a non-empty preferences
\* list, 'category in preferences OR some tag in preferences'; an absent or
\* empty list adds no predicate, and no other predicate is ever added.
C6_RecommendationFilter ==
    Handled("get_recommendations") =>
       LET f == Val(resp.filter)
           kept == FirstKept(
               LAMBDA d : /\ InPriceRange(d, BudgetMin(resp.req),
                                          resp.req.budget_max)
                          /\ PreferenceHit(d, resp.req.preferences),
               RecommendationLimit)
       IN  /\ f.category = None /\ f.orRegex = None
           /\ f.customer_id = None /\ f.idIn = None
           /\ ~Truthy(resp.req.preferences) => f.orIn = None
           /\ (~resp.req.has_budget_min /\ resp.req.budget_max = None) =>
                 f.price = Some([gte |-> Some(0), lte |-> None])
           /\ Len(Returned) = Len(kept)
           /\ {Returned[i]._id : i \in 1..Len(Returned)}
                 = {OidStr(kept[i]._id) : i \in 1..Len(kept)}

\* budget_min was omitted and a tag preference given: the product without a
\* price and the product in no preferred category or tag were left out
C6_Witness ==
    /\ Handled("get_recommendations")
    /\ ~resp.req.has_budget_min
    /\ resp.req.budget_max = Some(10)
    /\ Truthy(resp.req.preferences)
    /\ Len(Returned) = 1
    /\ Len(Products) = 2
    /\ \E i \in 1..Len(Products) : Products[i].price = None

PriceOf(d) == IF d.price = None THEN 0 ELSE Val(d.price)

RatingOf(d) == IF d.rating = None THEN 0 ELSE Val(d.rating)

Retrieved ==
    get_documents(store, "product", Val(resp.filter), RecommendationLimit)

=============================================================================
